---------------------------- MODULE Spec2Model ----------------------------
(***************************************************************************)
(* Model of fm_training_storyline_interactive_html_deck.jsx: the Deck      *)
(* shell (slide index, Prev/Next buttons, window keydown listener, quick   *)
(* jump grid, Progress value, AnimatePresence slide switch) and the        *)
(* OneMinuteTimer widget (seconds, running, the self re-arming one second  *)
(* timeout of its effect).                                                 *)
(*                                                                         *)
(* One action is one browser event together with the React commit it       *)
(* causes: the state update, the re-render, the cleanup of the effects     *)
(* whose dependencies changed and their re-run.                            *)
(***************************************************************************)
EXTENDS Integers, FiniteSets, Sequences, TLC

VARIABLES
    deckMounted,   \* the Deck component is mounted
    idx,           \* Deck: const [idx, setIdx] = useState(0)
    listeners,     \* number of keydown handlers registered on window
    shown,         \* index of the slide mounted inside <AnimatePresence>
    progressValue, \* value prop handed to <Progress> by the last render
    timers,        \* one OneMinuteTimer instance per slide that holds one
    last,          \* the last event handled and the state it found
    hist,          \* per timer: where it is in start / tick / pause / start
    streak,        \* consecutive go(+1) calls made since idx was 0
    remounted,     \* the Deck was mounted again and still shows its first slide
    updates        \* setIdx updates queued and not yet rendered

vars == <<deckMounted, idx, listeners, shown, progressValue, timers, last, hist, streak, remounted,
          updates>>

---------------------------------------------------------------------------
(* Program constants *)

\* slides.length: the slides array literal holds 22 entries
total == 22

slideCount == total

\* useState(60) and setSeconds(60)
StartSeconds == 60

\* indices of the two slides whose content holds <OneMinuteTimer /> (s1-2, s2-2)
TimerSlides == {2, 6}

(* Bounds of the model *)

\* go(d) is explored for every d in -MaxDelta..MaxDelta
MaxDelta == 23

Deltas == (0 - MaxDelta)..MaxDelta

\* at most MaxQueue setIdx updates wait for one render
MaxQueue == 3

\* the quick jump buttons clicked while updates wait for a render
JumpTargets == {0, 2, total - 1}

Keys == {"ArrowRight", "ArrowLeft", "Enter"}

NoId == 0

---------------------------------------------------------------------------
(* Deck: navigation *)

Max(a, b) == IF a >= b THEN a ELSE b

Min(a, b) == IF a <= b THEN a ELSE b

\* a go without the upper clamp
goNoUpperClamp(i, d) == Max(0, i + d)

\* a go that wraps around instead of saturating
goWrap(i, d) == (i + d) % total

\* const go = (d) => setIdx((i) => Math.max(0, Math.min(total-1, i + d)));
go(i, d) == Max(0, Min(total - 1, i + d))

\* the keydown event reaches every registered onKey handler in turn; each
\* handler queues one functional update setIdx(i => ...), applied in order
RECURSIVE Dispatch(_, _, _)
Dispatch(n, i, d) == IF n = 0 THEN i ELSE Dispatch(n - 1, go(i, d), d)

\* a go that reads the rendered idx: setIdx(Math.max(0, Math.min(total-1, idx + d)))
GoUpdateStale(i, d) == [fn |-> FALSE, arg |-> go(i, d)]

\* the update go(d) queues while the rendered index is i: the function
\* (i) => Math.max(0, Math.min(total-1, i + d)), which does not read i
GoUpdate(i, d) == [fn |-> TRUE, arg |-> d]

\* the update setIdx(i) of a quick jump button queues: the value i
JumpUpdate(i) == [fn |-> FALSE, arg |-> i]

\* React applies one queued update to the state it has computed so far
ApplyUpdate(state, u) == IF u.fn THEN go(state, u.arg) ELSE u.arg

\* at render React runs the queue of a state cell in the order of the calls
RECURSIVE ProcessQueue(_, _)
ProcessQueue(state, q) ==
    IF q = <<>> THEN state
    ELSE ProcessQueue(ApplyUpdate(state, Head(q)), Tail(q))

\* onKey: ArrowRight -> go(1), ArrowLeft -> go(-1), any other key nothing
KeyDelta(key) == IF key = "ArrowRight" THEN 1
                 ELSE IF key = "ArrowLeft" THEN 0 - 1
                 ELSE 0

\* a Progress value computed from the index instead of the slide number
ProgressOfIndex(i) == <<i * 100, total>>

\* <Progress value={((idx+1)/total)*100} />, kept as the exact fraction
\* <<numerator, denominator>>
Progress(i) == <<(i + 1) * 100, total>>

\* the deck's keydown effect without its cleanup
RemoveNothing(n) == n

\* return () => window.removeEventListener("keydown", onKey)
removeEventListener(n) == IF n > 0 THEN n - 1 ELSE n

\* window.addEventListener("keydown", onKey): onKey is a new function
\* object on every mount, so it is never merged with an older handler
addEventListener(n) == n + 1

---------------------------------------------------------------------------
(* OneMinuteTimer *)

\* state of an instance that is not mounted (its React state is gone)
NoTimer == [mounted |-> FALSE, seconds |-> StartSeconds, running |-> FALSE,
            timeouts |-> {}, cleanup |-> NoId]

\* setTimeout returns an id no pending timeout holds
FreshId(T) == CHOOSE i \in 1..(Cardinality(T) + 1) :
                  i \notin T /\ \A j \in 1..(i - 1) : j \in T

\* clearTimeout(id): a no-op for an id that has fired or was never set
clearTimeout(T, id) == T \ {id}

\* an effect whose cleanup forgets to clear the timeout
RunCleanupNoClear(t) == [t EXCEPT !.cleanup = NoId]

\* return () => clearTimeout(id), run before the effect re-runs and at unmount
RunCleanup(t) == [t EXCEPT !.timeouts = clearTimeout(@, t.cleanup),
                           !.cleanup = NoId]

\* an effect without the "if (seconds === 0) return" line
RunEffectNoZeroCheck(t) ==
    IF ~t.running THEN t
    ELSE [t EXCEPT !.timeouts = @ \cup {FreshId(t.timeouts)},
                   !.cleanup = FreshId(t.timeouts)]

\* useEffect body: if (!running) return; if (seconds === 0) return;
\* const id = setTimeout(() => setSeconds((s) => s - 1), 1000);
RunEffect(t) ==
    IF ~t.running THEN t
    ELSE IF t.seconds = 0 THEN t
    ELSE [t EXCEPT !.timeouts = @ \cup {FreshId(t.timeouts)},
                   !.cleanup = FreshId(t.timeouts)]

\* an effect without dependency array and without cleanup: it runs after
\* every render and never clears the timeout it set before
CommitNoCleanup(t, s, r) ==
    RunEffect([t EXCEPT !.seconds = s, !.running = r])

\* an effect whose dependency array is [running] only
CommitRunningOnly(t, s, r) ==
    IF r = t.running THEN [t EXCEPT !.seconds = s]
    ELSE RunEffect(RunCleanup([t EXCEPT !.seconds = s, !.running = r]))

\* re-render with the new state; the effect's dependencies are
\* [seconds, running]: unchanged dependencies leave the effect alone
Commit(t, s, r) ==
    IF s = t.seconds /\ r = t.running THEN t
    ELSE RunEffect(RunCleanup([t EXCEPT !.seconds = s, !.running = r]))

\* a timeout callback that takes two seconds off
TickUpdaterTwo(s) == s - 2

\* the timeout's callback: setSeconds((s) => s - 1)
TickUpdater(s) == s - 1

\* a Start button that also rewinds: setSeconds(60); setRunning(true)
startRewind(t) == Commit(t, StartSeconds, TRUE)

\* Start button: onClick={() => setRunning(true)}
start(t) == Commit(t, t.seconds, TRUE)

\* Pause button: onClick={() => setRunning(false)}
pause(t) == Commit(t, t.seconds, FALSE)

\* a reset that leaves running alone
resetKeepRunning(t) == Commit(t, StartSeconds, t.running)

\* const reset = () => { setSeconds(60); setRunning(false); };
reset(t) == Commit(t, StartSeconds, FALSE)

\* first render of a new instance (useState(60), useState(false)) and the
\* first run of its effect; timeouts still pending in the browser stay so
MountTimer(t) == RunEffect([mounted |-> TRUE, seconds |-> StartSeconds,
                            running |-> FALSE, timeouts |-> t.timeouts,
                            cleanup |-> NoId])

\* a slide that is hidden instead of unmounted: the instance lives on
UnmountTimerKeep(t) == t

\* unmount: the effect's cleanup runs and the instance's state is dropped
UnmountTimer(t) == [RunCleanup(t) EXCEPT !.mounted = FALSE,
                                         !.seconds = StartSeconds,
                                         !.running = FALSE]

\* the timeout id fires: it leaves the browser's pending set and, when the
\* instance is still mounted, its callback's update is rendered
FireTimeout(t, id) ==
    LET fired == [t EXCEPT !.timeouts = @ \ {id}]
    IN  IF t.mounted THEN Commit(fired, TickUpdater(t.seconds), t.running)
        ELSE fired

\* the characters of the decimal digits
DigitChars == <<"0", "1", "2", "3", "4", "5", "6", "7", "8", "9">>

\* String(n) for an integer n >= 0, as a sequence of characters
RECURSIVE String(_)
String(n) == IF n < 10 THEN <<DigitChars[n + 1]>>
             ELSE String(n \div 10) \o <<DigitChars[(n % 10) + 1]>>

\* a padStart that pads nothing
padStartNone(str, len, ch) == str

\* str.padStart(len, ch) for a one character ch
RECURSIVE padStart(_, _, _)
padStart(str, len, ch) == IF Len(str) >= len THEN str
                          ELSE padStart(<<ch>> \o str, len, ch)

\* {String(Math.floor(seconds/60)).padStart(1,"0")}:{String(seconds%60).padStart(2,"0")}
Display(seconds) ==
    padStart(String(seconds \div 60), 1, "0") \o <<":">>
        \o padStart(String(seconds % 60), 2, "0")

---------------------------------------------------------------------------
(* What the last event was and what it found; which part of a             *)
(* start / ticks / pause / start / ticks run each timer is in             *)

Ev(op, t, from, arg, tm) ==
    [op |-> op, t |-> t, from |-> from, arg |-> arg,
     sec |-> tm.seconds, run |-> tm.running,
     pend |-> Cardinality(tm.timeouts), was |-> tm.mounted]

\* phase: fresh -start-> run1 -tick-> run1 ... -pause-> paused -start-> run2
\* -tick-> run2 ...; anything else leaves the run ("other") until the next
\* reset or mount.  n: ticks since the timer was fresh.  k1: a tick came
\* before the pause.  j1: a tick came after the second start.
\* "dropped": the slot's last instance was unmounted after it had ticked,
\* and no timer has been mounted since.  "freshAgain": fresh, mounted in a
\* slot whose earlier instance was dropped.
NoHist == [phase |-> "none", n |-> 0, k1 |-> FALSE, j1 |-> FALSE]

Fresh == [phase |-> "fresh", n |-> 0, k1 |-> FALSE, j1 |-> FALSE]

Other == [phase |-> "other", n |-> 0, k1 |-> FALSE, j1 |-> FALSE]

Dropped == [phase |-> "dropped", n |-> 0, k1 |-> FALSE, j1 |-> FALSE]

FreshAgain == [phase |-> "freshAgain", n |-> 0, k1 |-> FALSE, j1 |-> FALSE]

HistStart(h) == IF h.phase \in {"fresh", "freshAgain"} THEN [h EXCEPT !.phase = "run1"]
                ELSE IF h.phase = "paused" THEN [h EXCEPT !.phase = "run2"]
                ELSE Other

HistPause(h) == IF h.phase = "run1" THEN [h EXCEPT !.phase = "paused"]
                ELSE Other

HistTick(h) == IF h.phase = "run1" THEN [h EXCEPT !.n = @ + 1, !.k1 = TRUE]
               ELSE IF h.phase = "run2" THEN [h EXCEPT !.n = @ + 1, !.j1 = TRUE]
               ELSE Other

---------------------------------------------------------------------------
(* The slide inside <AnimatePresence mode="wait">: the slide that leaves  *)
(* stays mounted until its exit animation is over, then the slide of the  *)
(* current index is mounted                                               *)

\* timers after the slide old is unmounted and the slide new is mounted
SwitchSlide(T, old, new) ==
    [t \in TimerSlides |->
        IF t = new THEN MountTimer(IF t = old THEN UnmountTimer(T[t]) ELSE T[t])
        ELSE IF t = old THEN UnmountTimer(T[t])
        ELSE T[t]]

SwitchHist(H, old, new) ==
    [t \in TimerSlides |->
        IF t = new THEN (IF t # old /\ H[t].phase = "dropped" THEN FreshAgain
                         ELSE Fresh)
        ELSE IF t = old THEN (IF H[t].n > 0 /\ new \notin TimerSlides
                                THEN Dropped ELSE NoHist)
        ELSE IF new \in TimerSlides THEN NoHist
        ELSE H[t]]

\* the timer of a slide, or NoTimer for a slide without one
TimerAt(T, i) == IF i \in TimerSlides THEN T[i] ELSE NoTimer

---------------------------------------------------------------------------
(* Initial state: the Deck has been mounted, slide 0 is shown *)

Init ==
    /\ deckMounted = TRUE
    /\ idx = 0
    /\ listeners = addEventListener(0)
    /\ shown = 0
    /\ progressValue = Progress(0)
    /\ timers = SwitchSlide([t \in TimerSlides |-> NoTimer], 0 - 1, 0)
    /\ hist = SwitchHist([t \in TimerSlides |-> NoHist], 0 - 1, 0)
    /\ last = Ev("init", 0 - 1, 0, 0, NoTimer)
    /\ streak = 0
    /\ remounted = FALSE
    /\ updates = <<>>

---------------------------------------------------------------------------
(* Deck events *)

\* the host mounts <Deck />: useState(0), first render, keydown effect
MountDeck ==
    /\ ~deckMounted
    /\ deckMounted' = TRUE
    /\ idx' = 0
    /\ listeners' = addEventListener(listeners)
    /\ shown' = 0
    /\ progressValue' = Progress(0)
    /\ timers' = SwitchSlide(timers, 0 - 1, 0)
    /\ hist' = SwitchHist(hist, 0 - 1, 0)
    /\ last' = Ev("mountDeck", 0 - 1, 0, 0, NoTimer)
    /\ remounted' = TRUE
    /\ UNCHANGED <<streak, updates>>

\* the host unmounts <Deck />: every effect's cleanup runs, state is dropped
UnmountDeck ==
    /\ deckMounted
    /\ deckMounted' = FALSE
    /\ idx' = 0
    /\ listeners' = removeEventListener(listeners)
    /\ shown' = 0
    /\ progressValue' = <<0, 1>>
    /\ timers' = SwitchSlide(timers, shown, 0 - 1)
    /\ hist' = SwitchHist(hist, shown, 0 - 1)
    /\ last' = Ev("unmountDeck", shown, idx, 0, TimerAt(timers, shown))
    /\ remounted' = FALSE
    /\ UNCHANGED <<streak, updates>>

\* the index changes and the Deck re-renders
SetIdx(op, from, arg, i) ==
    /\ idx' = i
    /\ progressValue' = Progress(i)
    /\ last' = Ev(op, 0 - 1, from, arg, NoTimer)
    /\ UNCHANGED <<deckMounted, listeners, shown, timers, hist, streak, remounted, updates>>

\* Prev button: onClick={() => go(-1)} disabled={idx===0}
Prev ==
    /\ deckMounted
    /\ idx # 0
    /\ SetIdx("prev", idx, 0 - 1, go(idx, 0 - 1))

\* Next button: onClick={() => go(1)} disabled={idx===total-1}
NextSlide ==
    /\ deckMounted
    /\ idx # total - 1
    /\ SetIdx("next", idx, 1, go(idx, 1))

\* a keydown event on window; the handlers of a Deck that is gone update nothing
KeyDown(key) ==
    /\ IF deckMounted
         THEN SetIdx(key, idx, KeyDelta(key),
                     IF key \in {"ArrowRight", "ArrowLeft"}
                       THEN Dispatch(listeners, idx, KeyDelta(key))
                       ELSE idx)
         ELSE /\ last' = Ev(key, 0 - 1, idx, KeyDelta(key), NoTimer)
              /\ UNCHANGED <<deckMounted, idx, listeners, shown, progressValue,
                             timers, hist, streak, remounted, updates>>

\* quick jump grid: onClick={() => setIdx(i)} for i over slides.map
Jump(i) ==
    /\ deckMounted
    /\ SetIdx("jump", i, i, i)

\* the exit animation of the slide that left is over
ExitComplete ==
    /\ deckMounted
    /\ shown # idx
    /\ shown' = idx
    /\ timers' = SwitchSlide(timers, shown, idx)
    /\ hist' = SwitchHist(hist, shown, idx)
    /\ last' = Ev("exitComplete", shown, shown, idx, TimerAt(timers, shown))
    /\ remounted' = FALSE
    /\ UNCHANGED <<deckMounted, idx, listeners, progressValue, streak, updates>>

---------------------------------------------------------------------------
(* OneMinuteTimer events *)

\* timer state kept in one place shared by every mounted instance
TimerEventShared(op, t, new, h) ==
    /\ timers' = [u \in TimerSlides |->
                    IF timers[u].mounted \/ u = t THEN new ELSE timers[u]]
    /\ hist' = [hist EXCEPT ![t] = h]
    /\ last' = Ev(op, t, 0, 0, timers[t])
    /\ UNCHANGED <<deckMounted, idx, listeners, shown, progressValue, streak, remounted, updates>>

\* an event of the timer t: only that instance's state changes
TimerEvent(op, t, new, h) ==
    /\ timers' = [timers EXCEPT ![t] = new]
    /\ hist' = [hist EXCEPT ![t] = h]
    /\ last' = Ev(op, t, 0, 0, timers[t])
    /\ UNCHANGED <<deckMounted, idx, listeners, shown, progressValue, streak, remounted, updates>>

Start(t) ==
    /\ timers[t].mounted
    /\ TimerEvent("start", t, start(timers[t]), HistStart(hist[t]))

Pause(t) ==
    /\ timers[t].mounted
    /\ TimerEvent("pause", t, pause(timers[t]), HistPause(hist[t]))

Reset(t) ==
    /\ timers[t].mounted
    /\ TimerEvent("reset", t, reset(timers[t]), Fresh)

\* one second after setTimeout the browser runs the callback
Tick(t) ==
    \E id \in timers[t].timeouts :
        TimerEvent("tick", t, FireTimeout(timers[t], id),
                   IF timers[t].mounted THEN HistTick(hist[t]) ELSE hist[t])

---------------------------------------------------------------------------

Next ==
    \/ MountDeck
    \/ UnmountDeck
    \/ Prev
    \/ NextSlide
    \/ \E key \in Keys : KeyDown(key)
    \/ \E i \in 0..(total - 1) : Jump(i)
    \/ ExitComplete
    \/ \E t \in TimerSlides : Start(t)
    \/ \E t \in TimerSlides : Pause(t)
    \/ \E t \in TimerSlides : Reset(t)
    \/ \E t \in TimerSlides : Tick(t)

Spec == Init /\ [][Next]_vars

---------------------------------------------------------------------------
(* go on its own: every index of the deck, every delta of Deltas *)

\* the states the deck is in after a jump to slide i has settled
InitGo ==
    /\ deckMounted = TRUE
    /\ idx \in 0..(total - 1)
    /\ listeners = addEventListener(0)
    /\ shown = idx
    /\ progressValue = Progress(idx)
    /\ timers = SwitchSlide([t \in TimerSlides |-> NoTimer], 0 - 1, idx)
    /\ hist = SwitchHist([t \in TimerSlides |-> NoHist], 0 - 1, idx)
    /\ last = Ev("init", 0 - 1, idx, 0, NoTimer)
    /\ streak = 0
    /\ remounted = FALSE
    /\ updates = <<>>

\* one call go(d)
GoDelta(d) ==
    /\ deckMounted
    /\ idx' = go(idx, d)
    /\ progressValue' = Progress(idx')
    /\ last' = Ev("go", 0 - 1, idx, d, NoTimer)
    /\ streak' = IF d = 1 /\ (idx = 0 \/ streak > 0)
                   THEN Min(streak + 1, total + 1)
                   ELSE 0
    /\ UNCHANGED <<deckMounted, listeners, shown, timers, hist, remounted, updates>>

NextGo == \E d \in Deltas : GoDelta(d)

SpecGo == InitGo /\ [][NextGo]_vars

---------------------------------------------------------------------------
(* Two OneMinuteTimer widgets mounted side by side by a host: each is its  *)
(* own instance with its own useState cells and its own effect             *)

InitTwo ==
    /\ deckMounted = FALSE
    /\ idx = 0
    /\ listeners = 0
    /\ shown = 0
    /\ progressValue = <<0, 1>>
    /\ timers = [t \in TimerSlides |-> MountTimer(NoTimer)]
    /\ hist = [t \in TimerSlides |-> NoHist]
    /\ last = Ev("init", 0 - 1, 0, 0, NoTimer)
    /\ streak = 0
    /\ remounted = FALSE
    /\ updates = <<>>

\* an event of the widget t; the run history is not followed here
WidgetEvent(op, t, new) == TimerEvent(op, t, new, hist[t])

StartOne(t) ==
    /\ timers[t].mounted
    /\ WidgetEvent("start", t, start(timers[t]))

PauseOne(t) ==
    /\ timers[t].mounted
    /\ WidgetEvent("pause", t, pause(timers[t]))

ResetOne(t) ==
    /\ timers[t].mounted
    /\ WidgetEvent("reset", t, reset(timers[t]))

TickOne(t) ==
    \E id \in timers[t].timeouts :
        WidgetEvent("tick", t, FireTimeout(timers[t], id))

\* the host stops rendering the widget t
UnmountOne(t) ==
    /\ timers[t].mounted
    /\ WidgetEvent("unmount", t, UnmountTimer(timers[t]))

\* the host renders the widget t again: a new instance
MountOne(t) ==
    /\ ~timers[t].mounted
    /\ WidgetEvent("mount", t, MountTimer(timers[t]))

NextTwo ==
    \/ \E t \in TimerSlides : StartOne(t)
    \/ \E t \in TimerSlides : PauseOne(t)
    \/ \E t \in TimerSlides : ResetOne(t)
    \/ \E t \in TimerSlides : TickOne(t)
    \/ \E t \in TimerSlides : UnmountOne(t)
    \/ \E t \in TimerSlides : MountOne(t)

SpecTwo == InitTwo /\ [][NextTwo]_vars

---------------------------------------------------------------------------
(* The Deck when events are handled faster than it renders: each event     *)
(* only queues its setIdx update, a later render applies the queue         *)

\* the index the requests made so far give when each is applied on arrival
Arrived == IF updates = <<>> THEN idx ELSE last.from

Request(op, us, ref) ==
    /\ deckMounted
    /\ Len(updates) + Len(us) <= MaxQueue
    /\ updates' = updates \o us
    /\ last' = Ev(op, 0 - 1, ref, Len(updates') , NoTimer)
    /\ UNCHANGED <<deckMounted, idx, listeners, shown, progressValue, timers,
                   hist, streak, remounted>>

\* Prev, enabled as long as the rendered idx is not 0
ClickPrev ==
    /\ idx # 0
    /\ Request("queued", <<GoUpdate(idx, 0 - 1)>>, go(Arrived, 0 - 1))

\* Next, enabled as long as the rendered idx is not total-1
ClickNext ==
    /\ idx # total - 1
    /\ Request("queued", <<GoUpdate(idx, 1)>>, go(Arrived, 1))

\* an arrow key: every registered handler calls go once
PressArrow(key) ==
    /\ deckMounted
    /\ Request("queued",
               [n \in 1..listeners |-> GoUpdate(idx, KeyDelta(key))],
               Dispatch(listeners, Arrived, KeyDelta(key)))

\* a quick jump button
ClickJump(i) ==
    /\ deckMounted
    /\ Request("queued", <<JumpUpdate(i)>>, i)

\* the Deck renders: the queue is applied to idx
Render ==
    /\ deckMounted
    /\ updates # <<>>
    /\ idx' = ProcessQueue(idx, updates)
    /\ progressValue' = Progress(idx')
    /\ updates' = <<>>
    /\ last' = Ev("render", 0 - 1, last.from, Len(updates), NoTimer)
    /\ UNCHANGED <<deckMounted, listeners, shown, timers, hist, streak, remounted>>

NextBatch ==
    \/ ClickPrev
    \/ ClickNext
    \/ \E key \in {"ArrowRight", "ArrowLeft"} : PressArrow(key)
    \/ \E i \in JumpTargets : ClickJump(i)
    \/ Render

SpecBatch == Init /\ [][NextBatch]_vars

---------------------------------------------------------------------------
(* A running timer that is left alone: only its timeouts fire (and Start  *)
(* may be clicked again); the browser runs every timeout that stays set    *)

\* the timer after k of its timeouts have fired
RECURSIVE AfterTicks(_, _)
AfterTicks(tm, k) ==
    IF k = 0 \/ tm.timeouts = {} THEN tm
    ELSE AfterTicks(FireTimeout(tm, CHOOSE id \in tm.timeouts : TRUE), k - 1)

\* the deck shows timer slide t; its timer was started and has ticked k times
InitCountdown ==
    \E t \in TimerSlides, k \in 0..(StartSeconds - 1) :
        /\ deckMounted = TRUE
        /\ idx = t
        /\ listeners = addEventListener(0)
        /\ shown = t
        /\ progressValue = Progress(t)
        /\ timers = [u \in TimerSlides |->
                        IF u = t THEN AfterTicks(start(MountTimer(NoTimer)), k)
                        ELSE NoTimer]
        /\ hist = [u \in TimerSlides |->
                        IF u = t THEN [phase |-> "run1", n |-> k,
                                       k1 |-> k > 0, j1 |-> FALSE]
                        ELSE NoHist]
        /\ last = Ev("init", 0 - 1, t, 0, NoTimer)
        /\ streak = 0
        /\ remounted = FALSE
        /\ updates = <<>>

NextCountdown ==
    \/ \E t \in TimerSlides : Tick(t)
    \/ \E t \in TimerSlides : StartOne(t)

SpecCountdown ==
    InitCountdown /\ [][NextCountdown]_vars
        /\ WF_vars(\E t \in TimerSlides : Tick(t))

---------------------------------------------------------------------------
(* Properties *)

Mounted == {t \in TimerSlides : timers[t].mounted}

\* C1: whatever sequence of Prev/Next clicks, arrow keys and jumps to a
\* slide of the grid has happened, 0 <= idx < slideCount.
IndexInRange == 0 <= idx /\ idx < slideCount

\* an ArrowRight pressed on the last slide has been handled
IndexInRangeWitness ==
    /\ deckMounted
    /\ last.op = "ArrowRight"
    /\ last.from = slideCount - 1
    /\ idx = slideCount - 1

\* C2: go(d) at index i gives max(0, min(slideCount-1, i + d)) for every
\* delta d; go(-1) at 0 and go(+1) at slideCount-1 change nothing; and
\* slideCount calls go(+1) from index 0 end at slideCount-1.
StepClamps ==
    /\ last.op = "go" =>
          idx = (IF last.from + last.arg < 0 THEN 0
                 ELSE IF last.from + last.arg > slideCount - 1 THEN slideCount - 1
                 ELSE last.from + last.arg)
    /\ last.op = "go" /\ last.from = 0 /\ last.arg = 0 - 1 => idx = 0
    /\ last.op = "go" /\ last.from = slideCount - 1 /\ last.arg = 1 =>
          idx = slideCount - 1
    /\ streak = slideCount => idx = slideCount - 1
    /\ streak > 0 /\ streak < slideCount => idx = streak

\* go(+1) has been called slideCount times in a row, starting at index 0
StepClampsWitness ==
    /\ streak = slideCount
    /\ last.op = "go"
    /\ last.from = slideCount - 1
    /\ last.arg = 1
    /\ idx = slideCount - 1

\* C3: seconds of every timer stays in 0..60, a tick never takes it below
\* 0, and a mounted timer gets back to 60 only by Reset or by being mounted.
SecondsInRange ==
    /\ [](\A t \in TimerSlides : timers[t].seconds \in 0..StartSeconds)
    /\ [][\A t \in TimerSlides :
            (/\ timers'[t].mounted
             /\ timers'[t].seconds = StartSeconds
             /\ ~(timers[t].mounted /\ timers[t].seconds = StartSeconds))
            => \/ last'.op = "reset" /\ last'.t = t
               \/ ~timers[t].mounted]_vars

\* a tick has taken a running timer from 1 to 0
SecondsInRangeWitness ==
    /\ last.op = "tick"
    /\ last.sec = 1
    /\ last.t \in Mounted
    /\ timers[last.t].seconds = 0

\* C4: a running timer at 0 has no timeout pending, and a mounted timer at
\* 0 stays at 0 until it is reset.
StopsAtZero ==
    /\ [](\A t \in Mounted :
            timers[t].running /\ timers[t].seconds = 0 => timers[t].timeouts = {})
    /\ [][\A t \in TimerSlides :
            timers[t].mounted /\ timers[t].seconds = 0 /\ timers'[t].mounted
            => \/ timers'[t].seconds = 0 /\ ~(last'.op = "tick" /\ last'.t = t)
               \/ last'.op = "reset" /\ last'.t = t]_vars

\* a timer started fresh has counted all 60 seconds down and is still running
StopsAtZeroWitness ==
    \E t \in Mounted :
        /\ hist[t].phase = "run1"
        /\ hist[t].n = StartSeconds
        /\ timers[t].running
        /\ timers[t].seconds = 0
        /\ timers[t].timeouts = {}

\* C5: a timer that is not mounted has no timeout pending, so no tick of an
\* unmounted timer ever fires.
NoTickAfterUnmount ==
    /\ [](\A t \in TimerSlides : ~timers[t].mounted => timers[t].timeouts = {})
    /\ [][last'.op = "tick" => timers[last'.t].mounted]_vars

\* a timer that was running with its tick scheduled has been unmounted
NoTickAfterUnmountWitness ==
    /\ last.op \in {"exitComplete", "unmountDeck"}
    /\ last.t \in TimerSlides
    /\ last.was /\ last.run /\ last.sec > 0 /\ last.pend = 1
    /\ ~timers[last.t].mounted
    /\ timers[last.t].timeouts = {}

\* C6: right after Reset the timer shows seconds = 60 and running = false,
\* whatever state it was in.
ResetYieldsIdle ==
    last.op = "reset" =>
        /\ timers[last.t].seconds = StartSeconds
        /\ timers[last.t].running = FALSE

\* Reset has been clicked on a timer that was running at 0
ResetYieldsIdleWitness ==
    /\ last.op = "reset"
    /\ last.run /\ last.sec = 0
    /\ timers[last.t].seconds = StartSeconds
    /\ ~timers[last.t].running

\* C7: Pause sets running = false and keeps seconds; Start keeps seconds;
\* after k ticks, Pause, Start and j more ticks (n = k + j ticks in all
\* since the timer was fresh) seconds = 60 - n.
PauseThenResume ==
    \A t \in Mounted :
        /\ last.op = "pause" /\ last.t = t =>
              ~timers[t].running /\ timers[t].seconds = last.sec
        /\ last.op = "start" /\ last.t = t => timers[t].seconds = last.sec
        /\ hist[t].phase = "paused" =>
              ~timers[t].running /\ timers[t].seconds = StartSeconds - hist[t].n
        /\ hist[t].phase = "run2" =>
              timers[t].seconds = StartSeconds - hist[t].n

\* ticks, then Pause, then Start, then ticks again: five ticks in all
PauseThenResumeWitness ==
    \E t \in Mounted :
        /\ hist[t].phase = "run2"
        /\ hist[t].k1 /\ hist[t].j1
        /\ hist[t].n = 5
        /\ timers[t].seconds = StartSeconds - 5

\* C8: a fresh timer (60, not running) that is started and then only ticks
\* shows seconds = 60 - k after k ticks, still running.
StartThenTicks ==
    \A t \in Mounted :
        hist[t].phase = "run1" =>
            /\ timers[t].seconds = StartSeconds - hist[t].n
            /\ timers[t].running

\* Start and three ticks: 57 seconds left, running
StartThenTicksWitness ==
    \E t \in Mounted :
        /\ hist[t].phase = "run1"
        /\ hist[t].n = 3
        /\ timers[t].seconds = 57
        /\ timers[t].running

\* C9: exactly one keydown handler is registered while the Deck is mounted
\* and none while it is not, so ArrowRight makes exactly one go(+1) and
\* ArrowLeft exactly one go(-1), also after the Deck was mounted again.
OneKeyHandler ==
    /\ deckMounted => listeners = 1
    /\ ~deckMounted => listeners = 0
    /\ deckMounted /\ last.op = "ArrowRight" =>
          idx = (IF last.from = slideCount - 1 THEN last.from ELSE last.from + 1)
    /\ deckMounted /\ last.op = "ArrowLeft" =>
          idx = (IF last.from = 0 THEN last.from ELSE last.from - 1)

\* after a remount, ArrowRight on slide 3 has moved the deck to slide 4
OneKeyHandlerWitness ==
    /\ remounted
    /\ deckMounted
    /\ listeners = 1
    /\ last.op = "ArrowRight"
    /\ last.from = 3
    /\ idx = 4

\* C10: the value given to Progress is (idx + 1) / slideCount * 100 for the
\* current idx: 100/slideCount on slide 0, 100 on the last slide, and a
\* larger index always shows a larger value.
ProgressTracksIndex ==
    /\ [](deckMounted =>
            /\ progressValue[1] * slideCount = (idx + 1) * 100 * progressValue[2]
            /\ idx = 0 => progressValue[1] * slideCount = 100 * progressValue[2]
            /\ idx = slideCount - 1 => progressValue[1] = 100 * progressValue[2])
    /\ [][deckMounted /\ deckMounted' /\ idx' > idx =>
            progressValue'[1] * progressValue[2] > progressValue[1] * progressValue'[2]]_vars

\* a jump to the last slide has been rendered
ProgressTracksIndexWitness ==
    /\ deckMounted
    /\ last.op = "jump"
    /\ idx = slideCount - 1
    /\ progressValue[1] = 100 * progressValue[2]

\* C11: with two timer widgets mounted, Start, Pause, Reset, a tick or the
\* unmount of one of them leaves seconds, running and the pending timeout
\* of the other as they were.
TimersIndependent ==
    [][\A u \in TimerSlides : u # last'.t => timers'[u] = timers[u]]_vars

\* one widget has just been reset while the other, started earlier, is
\* still running at 58 with its tick scheduled
TimersIndependentWitness ==
    \E t, u \in TimerSlides :
        /\ t # u
        /\ last.op = "reset" /\ last.t = t /\ last.run /\ last.sec = 57
        /\ timers[t].mounted /\ timers[t].seconds = StartSeconds
        /\ timers[u].mounted /\ timers[u].running
        /\ timers[u].seconds = 58
        /\ Cardinality(timers[u].timeouts) = 1

\* C12: for every value of seconds the timer shows the decimal of
\* floor(seconds/60), a colon, and seconds mod 60 as two digits with a
\* leading zero: 60 is 1:00, 5 is 0:05, 0 is 0:00.
DisplayFormat ==
    \A t \in Mounted :
        LET s == timers[t].seconds
            text == Display(s)
        IN  /\ Len(text) = 4
            /\ text[1] = DigitChars[(s \div 60) + 1]
            /\ text[2] = ":"
            /\ text[3] = DigitChars[((s % 60) \div 10) + 1]
            /\ text[4] = DigitChars[((s % 60) % 10) + 1]
            /\ s = 60 => text = <<"1", ":", "0", "0">>
            /\ s = 5 => text = <<"0", ":", "0", "5">>
            /\ s = 0 => text = <<"0", ":", "0", "0">>

\* a timer has counted down to 5 and shows 0:05
DisplayFormatWitness ==
    \E t \in Mounted :
        /\ timers[t].seconds = 5
        /\ last.op = "tick"
        /\ Display(timers[t].seconds) = <<"0", ":", "0", "5">>

\* C13: a timer that is not running has no timeout pending, also when
\* Pause or Reset came while a tick was scheduled, and its seconds change
\* only by Reset until it is started again.
StoppedTimerIsQuiet ==
    /\ [](\A t \in Mounted : ~timers[t].running => timers[t].timeouts = {})
    /\ [][\A t \in TimerSlides :
            timers[t].mounted /\ ~timers[t].running /\ timers'[t].mounted
            => \/ timers'[t].seconds = timers[t].seconds
               \/ last'.op = "reset" /\ last'.t = t]_vars

\* Pause has been clicked on a running timer whose tick was scheduled
StoppedTimerIsQuietWitness ==
    /\ last.op = "pause"
    /\ last.t \in Mounted
    /\ last.run /\ last.pend = 1 /\ last.sec = 58
    /\ ~timers[last.t].running
    /\ timers[last.t].seconds = 58
    /\ timers[last.t].timeouts = {}

Finished(tm) == tm.mounted /\ tm.running /\ tm.seconds = 0

\* C14 as stated: every step that takes a timer into Finished (running
\* with seconds = 0) from another state is a tick from 1 to 0.
FinishedOnlyByTick ==
    [][\A t \in TimerSlides :
          Finished(timers'[t]) /\ ~Finished(timers[t])
          => last'.op = "tick" /\ last'.t = t /\ timers[t].seconds = 1]_vars

\* C14 amended: seconds gets to 0 only by a tick from 1, and a step into
\* Finished from another state is either that tick or a Start on a timer
\* that stood paused at 0; Pause and Reset never enter it.
FinishedByTickOrRestart ==
    [][\A t \in TimerSlides :
          /\ timers'[t].mounted /\ timers'[t].seconds = 0 /\ timers[t].seconds # 0
             => last'.op = "tick" /\ last'.t = t /\ timers[t].seconds = 1
          /\ Finished(timers'[t]) /\ ~Finished(timers[t])
             => \/ last'.op = "tick" /\ last'.t = t /\ timers[t].seconds = 1
                \/ /\ last'.op = "start" /\ last'.t = t
                   /\ timers[t].mounted /\ ~timers[t].running
                   /\ timers[t].seconds = 0]_vars

\* a timer that ran down, was paused at 0 and was started again
FinishedByTickOrRestartWitness ==
    /\ last.op = "start"
    /\ last.t \in Mounted
    /\ ~last.run /\ last.sec = 0
    /\ Finished(timers[last.t])

\* C15: Start can be clicked in every state of a mounted timer; it sets
\* running = true and leaves seconds as it was; at seconds = 0 it schedules
\* no tick and seconds stays 0.
StartForcesRunning ==
    /\ \A t \in Mounted : ENABLED Start(t)
    /\ last.op = "start" /\ last.t \in Mounted =>
          /\ timers[last.t].running
          /\ timers[last.t].seconds = last.sec
          /\ last.sec = 0 => timers[last.t].timeouts = {}
          /\ last.sec > 0 => Cardinality(timers[last.t].timeouts) = 1

\* Start has been clicked on a timer that had already run down to 0
StartForcesRunningWitness ==
    /\ last.op = "start"
    /\ last.t \in Mounted
    /\ last.run /\ last.sec = 0 /\ last.pend = 0
    /\ timers[last.t].running
    /\ timers[last.t].seconds = 0
    /\ timers[last.t].timeouts = {}

FreshTimer(tm) ==
    /\ tm.mounted
    /\ tm.seconds = StartSeconds
    /\ ~tm.running
    /\ tm.timeouts = {}

\* C16 as stated: when the deck navigates back to a timer slide it had
\* navigated away from, the timer shown there is at (60, false) with no
\* tick pending.
BackShowsFreshTimer ==
    [][\A t \in TimerSlides :
          deckMounted /\ deckMounted' /\ idx # t /\ idx' = t /\ timers'[t].mounted
          => FreshTimer(timers'[t])]_vars

\* C16 amended: a timer is mounted only while its slide is the one inside
\* AnimatePresence, nothing of an unmounted timer is kept, every mount
\* starts at (60, false) with no tick pending, and so does the timer the
\* deck shows after it left the slide, the slide was unmounted, and the
\* deck came back.
MountStartsFresh ==
    /\ [](\A t \in TimerSlides :
            /\ timers[t].mounted => deckMounted /\ shown = t
            /\ ~timers[t].mounted => timers[t] = NoTimer
            /\ hist[t].phase = "freshAgain" => FreshTimer(timers[t]))
    /\ [][\A t \in TimerSlides :
            /\ ~timers[t].mounted /\ timers'[t].mounted => FreshTimer(timers'[t])
            /\ deckMounted /\ deckMounted' /\ idx # t /\ idx' = t /\ shown # t
               => ~timers'[t].mounted]_vars

\* the deck is back on a timer slide whose earlier instance had ticked and
\* was unmounted: the new instance is fresh
MountStartsFreshWitness ==
    \E t \in TimerSlides :
        /\ hist[t].phase = "freshAgain"
        /\ last.op = "exitComplete" /\ last.arg = t
        /\ idx = t /\ shown = t
        /\ FreshTimer(timers[t])

\* C17: when several Prev/Next clicks, arrow keys and jumps are queued
\* before a render, the index after the render is the one obtained by
\* applying each request, in the order of arrival, to the result of the
\* one before it.
BatchInOrder ==
    last.op = "render" => idx = last.from /\ updates = <<>>

\* three requests were rendered at once and took the deck from the last
\* slide's neighbourhood to slide 19
BatchInOrderWitness ==
    /\ last.op = "render"
    /\ last.arg = 3
    /\ last.from = 19
    /\ idx = 19

\* C18: a timer never has more than one timeout pending, and Start on a
\* timer that is already running changes nothing: no second timeout, the
\* one that is scheduled stays.
OnePendingTick ==
    /\ \A t \in TimerSlides : Cardinality(timers[t].timeouts) <= 1
    /\ last.op = "start" /\ last.run /\ last.t \in Mounted =>
          /\ Cardinality(timers[last.t].timeouts) = last.pend
          /\ timers[last.t].seconds = last.sec
          /\ timers[last.t].running

\* Start was clicked again on a timer running at 59 with its tick scheduled
OnePendingTickWitness ==
    /\ last.op = "start"
    /\ last.t \in Mounted
    /\ last.run /\ last.sec = 59 /\ last.pend = 1
    /\ Cardinality(timers[last.t].timeouts) = 1
    /\ timers[last.t].seconds = 59

\* C19: a mounted timer running at r > 0 that gets no Pause, no Reset and
\* no unmount, and whose timeouts the browser fires, ends at seconds = 0
\* after r ticks (60 ticks counted from the fresh timer) and stays there
\* with nothing pending.
CountdownEnds ==
    <>[](\A t \in Mounted :
            /\ timers[t].seconds = 0
            /\ timers[t].running
            /\ timers[t].timeouts = {}
            /\ hist[t].n = StartSeconds)

\* the last tick of a countdown has fired
CountdownEndsWitness ==
    \E t \in Mounted :
        /\ last.op = "tick" /\ last.t = t /\ last.sec = 1
        /\ hist[t].n = StartSeconds
        /\ timers[t].seconds = 0
        /\ timers[t].timeouts = {}

=============================================================================
